---- MODULE Spec2Model ----
(***************************************************************************)
(* api_yamdb: registration / confirmation-code exchange, the permission    *)
(* classes wired on the viewsets, the review uniqueness constraint and the *)
(* rating aggregate.  The database tables are the state; every HTTP        *)
(* handler is one action (review creation is two: validation, then the     *)
(* INSERT, so that concurrent requests interleave).                        *)
(***************************************************************************)
EXTENDS Integers, Sequences, FiniteSets, Bags, TLC

VARIABLES users, issued, outbox, categories, genres, titles,
          reviews, comments, nextReviewId, nextCommentId, pending, resp

vars == <<users, issued, outbox, categories, genres, titles,
          reviews, comments, nextReviewId, nextCommentId, pending, resp>>

authVars == <<users, issued, outbox>>
contentVars == <<categories, genres, titles, reviews, comments,
                 nextReviewId, nextCommentId, pending>>

(* ------------------------------ bounds --------------------------------- *)
MaxMail == 2
MaxReviewId == 2
MaxCommentId == 1
MaxInFlight == 2

(* --------------------------- settings.py ------------------------------- *)
MODERATOR == "moderator"
USER == "user"
ADMIN == "admin"
USER_ROLE_CHOICES == {MODERATOR, USER, ADMIN}

(* ------------------------- reviews/models.py --------------------------- *)
\* User.confirmation_code: default='not defined yet'
NotDefinedYet == "not defined yet"

\* A row of the User table; its id is its position in the table.
NewUser(username, email, role) ==
    [username |-> username, email |-> email, role |-> role,
     is_superuser |-> FALSE, is_staff |-> FALSE,
     confirmation_code |-> NotDefinedYet]

\* is_admin_role_only: the superuser and staff flags are not consulted.
is_admin_role_only(u) == u.role = ADMIN

is_admin(u) == u.role = ADMIN \/ u.is_superuser \/ u.is_staff

is_moderator(u) == u.role = MODERATOR

\* The request's user: 0 is the anonymous user, otherwise a User id whose
\* access token the request carries.
Anonymous == 0

(* --------------------- rest_framework permissions ---------------------- *)
SAFE_METHODS == {"GET", "HEAD", "OPTIONS"}

IsAuthenticated(actor) == actor # Anonymous

IsAuthenticatedOrReadOnly(method, actor) ==
    method \in SAFE_METHODS \/ actor # Anonymous

\* api/permissions.py
IsAdmin(us, actor) == actor # Anonymous /\ is_admin(us[actor])

IsAdminOrReadOnly(us, method, actor) ==
    method \in SAFE_METHODS \/ (actor # Anonymous /\ is_admin(us[actor]))

\* IsAuthorOrModeratorOrReadOnly: the view-level check, then the object-level
\* check against the object's author.
AuthorOrModeratorHasPermission(method, actor) ==
    method \in SAFE_METHODS \/ actor # Anonymous

IsAuthorOrModeratorOrReadOnly(us, method, actor, author) ==
    \/ method \in SAFE_METHODS
    \/ /\ actor # Anonymous
       /\ (author = actor \/ is_moderator(us[actor]) \/ is_admin(us[actor]))

\* A denied request: 401 without credentials, 403 with them.
Denied(actor) == IF actor = Anonymous THEN 401 ELSE 403

(* --------------------- registration and token exchange ----------------- *)
\* Codes default_token_generator.make_token can return (time dependent).
Tokens == {"t1", "t2"}

\* get_object_or_404(User, username=...): the id, or 0 for Http404.
UserByUsername(us, username) ==
    IF \E i \in DOMAIN us : us[i].username = username
    THEN CHOOSE i \in DOMAIN us : us[i].username = username
    ELSE 0

\* RegistrationSerializer.is_valid: the reserved name and a username or an
\* email taken by another identity are rejected; an existing pair passes.
RegistrationValid(us, username, email) ==
    /\ username # "me"
    /\ \A i \in DOMAIN us :
          (us[i].username = username) <=> (us[i].email = email)

\* create_always: User.objects.create in place of get_or_create.
create_always(us, username, email) ==
    [users |-> Append(us, NewUser(username, email, USER)),
     created |-> TRUE, error |-> FALSE, id |-> Len(us) + 1]

\* User.objects.get_or_create(username=, email=) under the unique
\* constraints of both columns.
get_or_create(us, username, email) ==
    IF \E i \in DOMAIN us : us[i].username = username /\ us[i].email = email
    THEN [users |-> us, created |-> FALSE, error |-> FALSE,
          id |-> CHOOSE i \in DOMAIN us :
                    us[i].username = username /\ us[i].email = email]
    ELSE IF \E i \in DOMAIN us : us[i].username = username \/ us[i].email = email
    THEN [users |-> us, created |-> FALSE, error |-> TRUE, id |-> 0]
    ELSE [users |-> Append(us, NewUser(username, email, USER)),
          created |-> TRUE, error |-> FALSE, id |-> Len(us) + 1]

\* save_on_create: the code is saved, but only for a user created by this call.
save_on_create(us, id, code, created) ==
    IF created THEN [us EXCEPT ![id].confirmation_code = code] ELSE us

\* signed_user.confirmation_code = self.token_generator(signed_user): the
\* attribute of the instance in memory is set and post() never calls save(),
\* so the User table keeps what it held.
assign_confirmation_code(us, id, code, created) == us

\* UserCreation.post
Signup(username, email) ==
    /\ UNCHANGED <<issued, contentVars>>
    /\ IF ~RegistrationValid(users, username, email)
       THEN /\ resp' = [op |-> "signup", status |-> 400,
                        username |-> username, email |-> email, uid |-> 0]
            /\ UNCHANGED <<users, outbox>>
       ELSE LET r == get_or_create(users, username, email) IN
            IF r.error
            THEN /\ resp' = [op |-> "signup", status |-> 500,
                             username |-> username, email |-> email, uid |-> 0]
                 /\ UNCHANGED <<users, outbox>>
            ELSE /\ Len(outbox) < MaxMail
                 /\ \E code \in Tokens :
                       /\ users' = assign_confirmation_code(r.users, r.id, code,
                                                            r.created)
                       /\ outbox' = Append(outbox,
                                      [to |-> r.users[r.id].email, body |-> code])
                 /\ resp' = [op |-> "signup", status |-> 200,
                             username |-> username, email |-> email,
                             uid |-> r.id]

\* check_token_instead: any code the generator made is accepted.
check_token_instead(supplied, stored) == supplied \in Tokens

\* user_data['confirmation_code'] == current_user.confirmation_code
CodeMatches(supplied, stored) == supplied = stored

\* JWTTokenConfirmation.post
Confirm(username, code) ==
    LET uid == UserByUsername(users, username) IN
    /\ UNCHANGED <<users, outbox, contentVars>>
    /\ IF uid = 0
       THEN /\ resp' = [op |-> "token", status |-> 404, username |-> username,
                        code |-> code, uid |-> 0, token |-> 0]
            /\ UNCHANGED issued
       ELSE IF CodeMatches(code, users[uid].confirmation_code)
       THEN /\ resp' = [op |-> "token", status |-> 201, username |-> username,
                        code |-> code, uid |-> uid, token |-> uid]
            /\ issued' = issued \cup {uid}
       ELSE /\ resp' = [op |-> "token", status |-> 400, username |-> username,
                        code |-> code, uid |-> uid, token |-> 0]
            /\ UNCHANGED issued

\* permission_classes of each view (views.py)
UserViewSetPermission(us, actor) == IsAuthenticated(actor) /\ IsAdmin(us, actor)

SelfProfilePermission(actor) == IsAuthenticated(actor)

\* category_any_authenticated: IsAuthenticatedOrReadOnly on the category view.
category_any_authenticated(us, method, actor) ==
    IsAuthenticatedOrReadOnly(method, actor)

CategoryViewSetPermission(us, method, actor) == IsAdminOrReadOnly(us, method, actor)

GenreViewSetPermission(us, method, actor) == IsAdminOrReadOnly(us, method, actor)

TitleViewSetPermission(us, method, actor) == IsAdminOrReadOnly(us, method, actor)

\* review_authenticated_only: IsAuthenticated in place of
\* IsAuthenticatedOrReadOnly on the review view.
review_authenticated_only(method, actor) ==
    /\ IsAuthenticated(actor)
    /\ AuthorOrModeratorHasPermission(method, actor)

ReviewViewSetPermission(method, actor) ==
    /\ IsAuthenticatedOrReadOnly(method, actor)
    /\ AuthorOrModeratorHasPermission(method, actor)

ReviewViewSetObjectPermission(us, method, actor, author) ==
    /\ IsAuthenticatedOrReadOnly(method, actor)
    /\ IsAuthorOrModeratorOrReadOnly(us, method, actor, author)

CommentViewSetPermission(method, actor) ==
    /\ IsAuthenticatedOrReadOnly(method, actor)
    /\ AuthorOrModeratorHasPermission(method, actor)

CommentViewSetObjectPermission(us, method, actor, author) ==
    /\ IsAuthenticatedOrReadOnly(method, actor)
    /\ IsAuthorOrModeratorOrReadOnly(us, method, actor, author)

(* ------------------------------ /users --------------------------------- *)
\* Requests carry no credentials or the access token of a user it was
\* issued to.
Actors == {Anonymous} \cup issued

\* UserViewSet.create (POST /users/)
UsersCreate(actor, username, email) ==
    /\ actor \in Actors
    /\ UNCHANGED <<issued, outbox, contentVars>>
    /\ IF ~UserViewSetPermission(users, actor)
       THEN /\ resp' = [op |-> "users_create", status |-> Denied(actor),
                        actor |-> actor, uid |-> 0]
            /\ UNCHANGED users
       ELSE IF \/ username = "me"
               \/ \E i \in DOMAIN users :
                     users[i].username = username \/ users[i].email = email
       THEN /\ resp' = [op |-> "users_create", status |-> 400,
                        actor |-> actor, uid |-> 0]
            /\ UNCHANGED users
       ELSE /\ users' = Append(users, NewUser(username, email, USER))
            /\ resp' = [op |-> "users_create", status |-> 201,
                        actor |-> actor, uid |-> Len(users) + 1]

\* UserViewSet.list (GET /users/)
UsersList(actor) ==
    /\ actor \in Actors
    /\ UNCHANGED <<authVars, contentVars>>
    /\ resp' = [op |-> "users_list", actor |-> actor,
                status |-> IF UserViewSetPermission(users, actor)
                           THEN 200 ELSE Denied(actor)]

\* UserViewSet.get_or_patch_self_profile, GET /users/me/
UsersMe(actor) ==
    /\ actor \in Actors
    /\ UNCHANGED <<authVars, contentVars>>
    /\ resp' = [op |-> "users_me", actor |-> actor,
                status |-> IF SelfProfilePermission(actor)
                           THEN 200 ELSE Denied(actor)]

(* ----------------------- categories and genres -------------------------- *)
Slugs == {"a", "b"}

NoCategory == "null"

\* on_delete=models.SET_NULL of Title.category
SetNullCategory(ts, slug) ==
    [t \in DOMAIN ts |->
        IF ts[t].category = slug THEN [ts[t] EXCEPT !.category = NoCategory]
        ELSE ts[t]]

\* on_delete=models.CASCADE of GenreTitle.genre
CascadeGenreTitle(ts, slug) ==
    [t \in DOMAIN ts |-> [ts[t] EXCEPT !.genre = @ \ {slug}]]

\* CategoryViewSet, POST /categories/
CategoryCreate(actor, slug) ==
    /\ actor \in Actors
    /\ UNCHANGED <<authVars, genres, titles, reviews, comments,
                   nextReviewId, nextCommentId, pending>>
    /\ IF ~CategoryViewSetPermission(users, "POST", actor)
       THEN /\ resp' = [op |-> "category_create", status |-> Denied(actor),
                        actor |-> actor, slug |-> slug]
            /\ UNCHANGED categories
       ELSE IF slug \in categories
       THEN /\ resp' = [op |-> "category_create", status |-> 400,
                        actor |-> actor, slug |-> slug]
            /\ UNCHANGED categories
       ELSE /\ categories' = categories \cup {slug}
            /\ resp' = [op |-> "category_create", status |-> 201,
                        actor |-> actor, slug |-> slug]

\* CategoryViewSet, DELETE /categories/{slug}/: the router binds the method
\* to destroy, which shadows the class's delete.
CategoryDelete(actor, slug) ==
    /\ actor \in Actors
    /\ UNCHANGED <<authVars, genres, reviews, comments,
                   nextReviewId, nextCommentId, pending>>
    /\ IF ~CategoryViewSetPermission(users, "DELETE", actor)
       THEN /\ resp' = [op |-> "category_delete", status |-> Denied(actor),
                        actor |-> actor, slug |-> slug]
            /\ UNCHANGED <<categories, titles>>
       ELSE IF slug \notin categories
       THEN /\ resp' = [op |-> "category_delete", status |-> 404,
                        actor |-> actor, slug |-> slug]
            /\ UNCHANGED <<categories, titles>>
       ELSE /\ categories' = categories \ {slug}
            /\ titles' = SetNullCategory(titles, slug)
            /\ resp' = [op |-> "category_delete", status |-> 204,
                        actor |-> actor, slug |-> slug]

\* CategoryViewSet.delete, reached by DELETE /categories/ (no slug): after
\* the permission check the call lacks its pk argument and raises.
CategoryDeleteNoSlug(actor) ==
    /\ actor \in Actors
    /\ UNCHANGED <<authVars, contentVars>>
    /\ resp' = [op |-> "category_delete", actor |-> actor, slug |-> "",
                status |-> IF CategoryViewSetPermission(users, "DELETE", actor)
                           THEN 500 ELSE Denied(actor)]

\* CategoryViewSet, GET /categories/
CategoryList(actor) ==
    /\ actor \in Actors
    /\ UNCHANGED <<authVars, contentVars>>
    /\ resp' = [op |-> "category_list", actor |-> actor,
                status |-> IF CategoryViewSetPermission(users, "GET", actor)
                           THEN 200 ELSE Denied(actor)]

\* GenreViewSet, POST /genres/
GenreCreate(actor, slug) ==
    /\ actor \in Actors
    /\ UNCHANGED <<authVars, categories, titles, reviews, comments,
                   nextReviewId, nextCommentId, pending>>
    /\ IF ~GenreViewSetPermission(users, "POST", actor)
       THEN /\ resp' = [op |-> "genre_create", status |-> Denied(actor),
                        actor |-> actor, slug |-> slug]
            /\ UNCHANGED genres
       ELSE IF slug \in genres
       THEN /\ resp' = [op |-> "genre_create", status |-> 400,
                        actor |-> actor, slug |-> slug]
            /\ UNCHANGED genres
       ELSE /\ genres' = genres \cup {slug}
            /\ resp' = [op |-> "genre_create", status |-> 201,
                        actor |-> actor, slug |-> slug]

\* GenreViewSet, DELETE /genres/{slug}/
GenreDelete(actor, slug) ==
    /\ actor \in Actors
    /\ UNCHANGED <<authVars, categories, reviews, comments,
                   nextReviewId, nextCommentId, pending>>
    /\ IF ~GenreViewSetPermission(users, "DELETE", actor)
       THEN /\ resp' = [op |-> "genre_delete", status |-> Denied(actor),
                        actor |-> actor, slug |-> slug]
            /\ UNCHANGED <<genres, titles>>
       ELSE IF slug \notin genres
       THEN /\ resp' = [op |-> "genre_delete", status |-> 404,
                        actor |-> actor, slug |-> slug]
            /\ UNCHANGED <<genres, titles>>
       ELSE /\ genres' = genres \ {slug}
            /\ titles' = CascadeGenreTitle(titles, slug)
            /\ resp' = [op |-> "genre_delete", status |-> 204,
                        actor |-> actor, slug |-> slug]

\* GenreViewSet.delete, reached by DELETE /genres/ (no slug)
GenreDeleteNoSlug(actor) ==
    /\ actor \in Actors
    /\ UNCHANGED <<authVars, contentVars>>
    /\ resp' = [op |-> "genre_delete", actor |-> actor, slug |-> "",
                status |-> IF GenreViewSetPermission(users, "DELETE", actor)
                           THEN 500 ELSE Denied(actor)]

\* GenreViewSet, GET /genres/
GenreList(actor) ==
    /\ actor \in Actors
    /\ UNCHANGED <<authVars, contentVars>>
    /\ resp' = [op |-> "genre_list", actor |-> actor,
                status |-> IF GenreViewSetPermission(users, "GET", actor)
                           THEN 200 ELSE Denied(actor)]

\* TitleViewSet, PATCH /titles/{id}/ with TitleWriteSerializer: category and
\* genre are given by slug and must exist.
TitlePatch(actor, t, category, genre) ==
    /\ actor \in Actors
    /\ UNCHANGED <<authVars, categories, genres, reviews, comments,
                   nextReviewId, nextCommentId, pending>>
    /\ IF ~TitleViewSetPermission(users, "PATCH", actor)
       THEN /\ resp' = [op |-> "title_patch", status |-> Denied(actor),
                        actor |-> actor, title |-> t]
            /\ UNCHANGED titles
       ELSE IF t \notin DOMAIN titles
       THEN /\ resp' = [op |-> "title_patch", status |-> 404,
                        actor |-> actor, title |-> t]
            /\ UNCHANGED titles
       ELSE IF category \notin categories \/ ~(genre \subseteq genres)
       THEN /\ resp' = [op |-> "title_patch", status |-> 400,
                        actor |-> actor, title |-> t]
            /\ UNCHANGED titles
       ELSE /\ titles' = [titles EXCEPT ![t] =
                             [category |-> category, genre |-> genre]]
            /\ resp' = [op |-> "title_patch", status |-> 200,
                        actor |-> actor, title |-> t]

(* ------------------------------ reviews -------------------------------- *)
\* min_score_zero: MinValueValidator(0) in place of MinValueValidator(1).
min_score_zero(score) == score >= 0 /\ score <= 10

\* Review.score validators: MinValueValidator(1), MaxValueValidator(10)
ValidScore(score) == score >= 1 /\ score <= 10

\* no_constraint: the table without unique_author_review.
no_constraint(rs, title, author) == TRUE

\* Review.Meta.constraints: UniqueConstraint(fields=['title', 'author'])
unique_author_review(rs, title, author) ==
    ~ \E r \in rs : r.title = title /\ r.author = author

\* get_queryset().get(pk=rid): the review of that title, as a set (empty: 404)
ReviewOfTitle(rs, ts, t, rid) ==
    IF t \in DOMAIN ts THEN {r \in rs : r.title = t /\ r.id = rid} ELSE {}

\* on_delete=models.CASCADE of Comment.review
CascadeComments(cs, rid) == {c \in cs : c.review # rid}

\* ReviewViewSet.create up to perform_create's lookups: permissions,
\* serializer validation, get_object_or_404(Title).  The request then
\* waits for its INSERT; pending is the bag of such requests (the same
\* request may be in flight twice).
ReviewCreateBegin(actor, t, score) ==
    /\ actor \in Actors
    /\ UNCHANGED <<authVars, categories, genres, titles, reviews, comments,
                   nextReviewId, nextCommentId>>
    /\ IF ~ReviewViewSetPermission("POST", actor)
       THEN /\ resp' = [op |-> "review_create", status |-> Denied(actor),
                        actor |-> actor, title |-> t, rid |-> 0]
            /\ UNCHANGED pending
       ELSE IF ~ValidScore(score)
       THEN /\ resp' = [op |-> "review_create", status |-> 400,
                        actor |-> actor, title |-> t, rid |-> 0]
            /\ UNCHANGED pending
       ELSE IF t \notin DOMAIN titles
       THEN /\ resp' = [op |-> "review_create", status |-> 404,
                        actor |-> actor, title |-> t, rid |-> 0]
            /\ UNCHANGED pending
       ELSE /\ BagCardinality(pending) < MaxInFlight
            /\ pending' = pending (+)
                 SetToBag({[actor |-> actor, title |-> t, score |-> score]})
            /\ UNCHANGED resp

\* serializer.save(author=user, title_id=title.id): the INSERT, checked by
\* the storage layer against unique_author_review.
ReviewCreateCommit(req) ==
    /\ BagIn(req, pending)
    /\ pending' = pending (-) SetToBag({req})
    /\ UNCHANGED <<authVars, categories, genres, titles, comments,
                   nextCommentId>>
    /\ IF ~unique_author_review(reviews, req.title, req.actor)
       THEN /\ resp' = [op |-> "review_create", status |-> 409,
                        actor |-> req.actor, title |-> req.title, rid |-> 0]
            /\ UNCHANGED <<reviews, nextReviewId>>
       ELSE /\ nextReviewId <= MaxReviewId
            /\ reviews' = reviews \cup
                            {[id |-> nextReviewId, title |-> req.title,
                              author |-> req.actor, score |-> req.score]}
            /\ nextReviewId' = nextReviewId + 1
            /\ resp' = [op |-> "review_create", status |-> 201,
                        actor |-> req.actor, title |-> req.title,
                        rid |-> nextReviewId]

\* ReviewViewSet.partial_update, PATCH /titles/{t}/reviews/{rid}/
ReviewUpdate(actor, t, rid, score) ==
    LET found == ReviewOfTitle(reviews, titles, t, rid)
        R(status, author) ==
            [op |-> "review_update", status |-> status, actor |-> actor,
             title |-> t, rid |-> rid, author |-> author, score |-> score]
    IN
    /\ actor \in Actors
    /\ UNCHANGED <<authVars, categories, genres, titles, comments,
                   nextReviewId, nextCommentId, pending>>
    /\ IF ~ReviewViewSetPermission("PATCH", actor)
       THEN resp' = R(Denied(actor), 0) /\ UNCHANGED reviews
       ELSE IF found = {}
       THEN resp' = R(404, 0) /\ UNCHANGED reviews
       ELSE LET r == CHOOSE x \in found : TRUE IN
            IF ~ReviewViewSetObjectPermission(users, "PATCH", actor, r.author)
            THEN resp' = R(Denied(actor), r.author) /\ UNCHANGED reviews
            ELSE IF ~ValidScore(score)
            THEN resp' = R(400, r.author) /\ UNCHANGED reviews
            ELSE /\ reviews' = (reviews \ {r}) \cup {[r EXCEPT !.score = score]}
                 /\ resp' = R(200, r.author)

\* ReviewViewSet.destroy, DELETE /titles/{t}/reviews/{rid}/
ReviewDelete(actor, t, rid) ==
    LET found == ReviewOfTitle(reviews, titles, t, rid)
        R(status, author) ==
            [op |-> "review_delete", status |-> status, actor |-> actor,
             title |-> t, rid |-> rid, author |-> author]
    IN
    /\ actor \in Actors
    /\ UNCHANGED <<authVars, categories, genres, titles,
                   nextReviewId, nextCommentId, pending>>
    /\ IF ~ReviewViewSetPermission("DELETE", actor)
       THEN resp' = R(Denied(actor), 0) /\ UNCHANGED <<reviews, comments>>
       ELSE IF found = {}
       THEN resp' = R(404, 0) /\ UNCHANGED <<reviews, comments>>
       ELSE LET r == CHOOSE x \in found : TRUE IN
            IF ~ReviewViewSetObjectPermission(users, "DELETE", actor, r.author)
            THEN resp' = R(Denied(actor), r.author) /\ UNCHANGED <<reviews, comments>>
            ELSE /\ reviews' = reviews \ {r}
                 /\ comments' = CascadeComments(comments, r.id)
                 /\ resp' = R(204, r.author)

\* ReviewViewSet.list, GET /titles/{t}/reviews/
ReviewList(actor, t) ==
    /\ actor \in Actors
    /\ UNCHANGED <<authVars, contentVars>>
    /\ resp' = [op |-> "review_list", actor |-> actor, title |-> t,
                status |-> IF ~ReviewViewSetPermission("GET", actor)
                           THEN Denied(actor)
                           ELSE IF t \notin DOMAIN titles THEN 404 ELSE 200]

(* ------------------------------ comments ------------------------------- *)
\* get_queryset().get(pk=cid): the comment of that review (empty: 404);
\* title_id of the URL is not used.
CommentOfReview(cs, rs, rid, cid) ==
    IF \E r \in rs : r.id = rid
    THEN {c \in cs : c.review = rid /\ c.id = cid} ELSE {}

\* CommentViewSet.create and perform_create
CommentCreate(actor, rid, text) ==
    LET R(status, cid) ==
            [op |-> "comment_create", status |-> status, actor |-> actor,
             rid |-> rid, cid |-> cid]
    IN
    /\ actor \in Actors
    /\ UNCHANGED <<authVars, categories, genres, titles, reviews,
                   nextReviewId, pending>>
    /\ IF ~CommentViewSetPermission("POST", actor)
       THEN resp' = R(Denied(actor), 0) /\ UNCHANGED <<comments, nextCommentId>>
       ELSE IF ~ \E r \in reviews : r.id = rid
       THEN resp' = R(404, 0) /\ UNCHANGED <<comments, nextCommentId>>
       ELSE /\ nextCommentId <= MaxCommentId
            /\ comments' = comments \cup
                             {[id |-> nextCommentId, review |-> rid,
                               author |-> actor, text |-> text]}
            /\ nextCommentId' = nextCommentId + 1
            /\ resp' = R(201, nextCommentId)

\* CommentViewSet.partial_update
CommentUpdate(actor, rid, cid, text) ==
    LET found == CommentOfReview(comments, reviews, rid, cid)
        R(status, author) ==
            [op |-> "comment_update", status |-> status, actor |-> actor,
             rid |-> rid, cid |-> cid, author |-> author, text |-> text]
    IN
    /\ actor \in Actors
    /\ UNCHANGED <<authVars, categories, genres, titles, reviews,
                   nextReviewId, nextCommentId, pending>>
    /\ IF ~CommentViewSetPermission("PATCH", actor)
       THEN resp' = R(Denied(actor), 0) /\ UNCHANGED comments
       ELSE IF found = {}
       THEN resp' = R(404, 0) /\ UNCHANGED comments
       ELSE LET c == CHOOSE x \in found : TRUE IN
            IF ~CommentViewSetObjectPermission(users, "PATCH", actor, c.author)
            THEN resp' = R(Denied(actor), c.author) /\ UNCHANGED comments
            ELSE /\ comments' = (comments \ {c}) \cup {[c EXCEPT !.text = text]}
                 /\ resp' = R(200, c.author)

\* CommentViewSet.destroy
CommentDelete(actor, rid, cid) ==
    LET found == CommentOfReview(comments, reviews, rid, cid)
        R(status, author) ==
            [op |-> "comment_delete", status |-> status, actor |-> actor,
             rid |-> rid, cid |-> cid, author |-> author]
    IN
    /\ actor \in Actors
    /\ UNCHANGED <<authVars, categories, genres, titles, reviews,
                   nextReviewId, nextCommentId, pending>>
    /\ IF ~CommentViewSetPermission("DELETE", actor)
       THEN resp' = R(Denied(actor), 0) /\ UNCHANGED comments
       ELSE IF found = {}
       THEN resp' = R(404, 0) /\ UNCHANGED comments
       ELSE LET c == CHOOSE x \in found : TRUE IN
            IF ~CommentViewSetObjectPermission(users, "DELETE", actor, c.author)
            THEN resp' = R(Denied(actor), c.author) /\ UNCHANGED comments
            ELSE /\ comments' = comments \ {c}
                 /\ resp' = R(204, c.author)

\* CommentViewSet.list
CommentList(actor, rid) ==
    /\ actor \in Actors
    /\ UNCHANGED <<authVars, contentVars>>
    /\ resp' = [op |-> "comment_list", actor |-> actor, rid |-> rid,
                status |-> IF ~CommentViewSetPermission("GET", actor)
                           THEN Denied(actor)
                           ELSE IF \E r \in reviews : r.id = rid
                           THEN 200 ELSE 404]

(* --------------------------- aggregate rating -------------------------- *)
RECURSIVE SumScores(_)
SumScores(rs) ==
    IF rs = {} THEN 0
    ELSE LET r == CHOOSE x \in rs : TRUE IN r.score + SumScores(rs \ {r})

\* round(): to the nearest integer, a tie to the even one
Round(total, n) ==
    LET q == total \div n
        rem == total % n
    IN IF 2 * rem < n THEN q
       ELSE IF 2 * rem > n THEN q + 1
       ELSE IF q % 2 = 0 THEN q ELSE q + 1

\* <<>> is null
average_rating(rs, t) ==
    LET of == {r \in rs : r.title = t} IN
    IF of = {} THEN <<>> ELSE <<Round(SumScores(of), Cardinality(of))>>

\* TitleViewSet.retrieve with TitleReadSerializer, GET /titles/{t}/
TitleRead(actor, t) ==
    /\ actor \in Actors
    /\ UNCHANGED <<authVars, contentVars>>
    /\ resp' = IF ~TitleViewSetPermission(users, "GET", actor)
               THEN [op |-> "title_read", status |-> Denied(actor),
                     actor |-> actor, title |-> t, rating |-> <<>>]
               ELSE IF t \notin DOMAIN titles
               THEN [op |-> "title_read", status |-> 404,
                     actor |-> actor, title |-> t, rating |-> <<>>]
               ELSE [op |-> "title_read", status |-> 200, actor |-> actor,
                     title |-> t, rating |-> average_rating(reviews, t)]

(* ---------------------------- initial states --------------------------- *)
NoResponse == [op |-> "none", status |-> 0]

\* A fresh deployment: migrations applied and `createsuperuser` run.
InitAuth ==
    /\ users = << [NewUser("root", "root@x", USER) EXCEPT !.is_superuser = TRUE] >>
    /\ issued = {}
    /\ outbox = << >>
    /\ categories = {}
    /\ genres = {}
    /\ titles = << >>
    /\ reviews = {}
    /\ comments = {}
    /\ nextReviewId = 1
    /\ nextCommentId = 1
    /\ pending = EmptyBag
    /\ resp = NoResponse

\* A populated deployment: one account of every kind, each holding an access
\* token, one category, one genre and two titles; no review yet.
Accounts ==
    << [NewUser("root", "root@x", USER) EXCEPT !.is_superuser = TRUE],
       NewUser("adm", "adm@x", ADMIN),
       [NewUser("stf", "stf@x", USER) EXCEPT !.is_staff = TRUE],
       NewUser("mod", "mod@x", MODERATOR),
       NewUser("amy", "amy@x", USER),
       NewUser("bob", "bob@x", USER) >>

InitContent ==
    /\ users = Accounts
    /\ issued = DOMAIN Accounts
    /\ outbox = << >>
    /\ categories = {"a"}
    /\ genres = {"a"}
    /\ titles = << [category |-> "a", genre |-> {"a"}],
                   [category |-> NoCategory, genre |-> {}] >>
    /\ reviews = {}
    /\ comments = {}
    /\ nextReviewId = 1
    /\ nextCommentId = 1
    /\ pending = EmptyBag
    /\ resp = NoResponse

(* ------------------------------- requests ------------------------------ *)
Usernames == {"root", "amy", "bob", "me"}
Emails == {"root@x", "amy@x", "bob@x"}
SuppliedCodes == Tokens \cup {NotDefinedYet}

NextAuth ==
    \/ \E username \in Usernames, email \in Emails : Signup(username, email)
    \/ \E username \in Usernames, code \in SuppliedCodes : Confirm(username, code)
    \/ \E actor \in Actors, username \in Usernames, email \in Emails :
          UsersCreate(actor, username, email)
    \/ \E actor \in Actors : UsersList(actor)
    \/ \E actor \in Actors : UsersMe(actor)

SpecAuth == InitAuth /\ [][NextAuth]_vars

NextCatalog ==
    \/ \E actor \in Actors, slug \in Slugs : CategoryCreate(actor, slug)
    \/ \E actor \in Actors, slug \in Slugs : CategoryDelete(actor, slug)
    \/ \E actor \in Actors : CategoryDeleteNoSlug(actor)
    \/ \E actor \in Actors : CategoryList(actor)
    \/ \E actor \in Actors, slug \in Slugs : GenreCreate(actor, slug)
    \/ \E actor \in Actors, slug \in Slugs : GenreDelete(actor, slug)
    \/ \E actor \in Actors : GenreDeleteNoSlug(actor)
    \/ \E actor \in Actors : GenreList(actor)
    \/ \E actor \in Actors, t \in DOMAIN titles, category \in Slugs,
          genre \in SUBSET Slugs : TitlePatch(actor, t, category, genre)

SpecCatalog == InitContent /\ [][NextCatalog]_vars

Amy == UserByUsername(Accounts, "amy")
Bob == UserByUsername(Accounts, "bob")
Moderator == UserByUsername(Accounts, "mod")
TitleIds == {1, 2}
ReviewIds == 1 .. MaxReviewId
CommentIds == 1 .. MaxCommentId
CreateScores == {0, 1}
UpdateScores == {10, 11}

NextReviews ==
    \/ \E t \in TitleIds, score \in CreateScores :
          ReviewCreateBegin(Amy, t, score)
    \/ \E score \in CreateScores : ReviewCreateBegin(Bob, 1, score)
    \/ \E req \in BagToSet(pending) : ReviewCreateCommit(req)
    \/ \E actor \in {Amy, Bob}, t \in TitleIds, rid \in ReviewIds,
          score \in UpdateScores : ReviewUpdate(actor, t, rid, score)
    \/ \E actor \in {Amy, Moderator}, t \in TitleIds, rid \in ReviewIds :
          ReviewDelete(actor, t, rid)
    \/ \E t \in TitleIds \cup {3} : TitleRead(Anonymous, t)

SpecReviews == InitContent /\ [][NextReviews]_vars

NextPerm ==
    \/ ReviewCreateBegin(Amy, 1, 1)
    \/ \E req \in BagToSet(pending) : ReviewCreateCommit(req)
    \/ \E actor \in Actors, rid \in ReviewIds, score \in {2, 11} :
          ReviewUpdate(actor, 1, rid, score)
    \/ \E actor \in Actors, t \in TitleIds, rid \in ReviewIds :
          ReviewDelete(actor, t, rid)
    \/ \E rid \in ReviewIds : CommentCreate(Bob, rid, "x")
    \/ \E actor \in Actors, rid \in ReviewIds, cid \in CommentIds :
          CommentUpdate(actor, rid, cid, "y")
    \/ \E actor \in Actors, rid \in ReviewIds, cid \in CommentIds :
          CommentDelete(actor, rid, cid)
    \/ \E actor \in Actors : UsersList(actor)
    \/ \E actor \in Actors : UsersMe(actor)
    \/ \E actor \in Actors : CategoryList(actor)
    \/ \E actor \in Actors : GenreList(actor)
    \/ \E actor \in Actors, t \in TitleIds : TitleRead(actor, t)
    \/ \E actor \in Actors, t \in TitleIds : ReviewList(actor, t)
    \/ \E actor \in Actors, rid \in ReviewIds : CommentList(actor, rid)

SpecPerm == InitContent /\ [][NextPerm]_vars

(* ===================== registration and confirmation ==================== *)
\* The mails sent to an address, as positions of the outbox.
MailsTo(email) == {i \in DOMAIN outbox : outbox[i].to = email}

\* C1: after a successful signup dispatched code C to the user, with no
\* later signup for that user, confirm(username, C) returns 201 and issues
\* an access token for the user.
C1_LastDispatchedCodeConfirms ==
    (/\ resp.op = "token"
     /\ resp.uid # 0
     /\ MailsTo(users[resp.uid].email) # {}
     /\ \A i \in MailsTo(users[resp.uid].email) :
           (\A j \in MailsTo(users[resp.uid].email) : j <= i)
              => outbox[i].body = resp.code)
    => (resp.status = 201 /\ resp.token = resp.uid)

\* C2: once a second signup for the same pair dispatched a code different
\* from an earlier one, confirm with the earlier code fails with 400 and
\* issues no token.
C2_EarlierCodeInvalidated ==
    (/\ resp.op = "token"
     /\ resp.uid # 0
     /\ \E i, j \in MailsTo(users[resp.uid].email) :
           i < j /\ outbox[i].body = resp.code /\ outbox[j].body # resp.code)
    => (resp.status = 400 /\ resp.token = 0)

C2_Witness ==
    /\ resp.op = "token"
    /\ resp.status = 400
    /\ Len(outbox) = 2
    /\ outbox[1].to = users[resp.uid].email
    /\ outbox[2].to = users[resp.uid].email
    /\ outbox[1].body = resp.code
    /\ outbox[2].body # resp.code

\* C3: confirm with a code other than the stored one issues no token: 400
\* for a known username, 404 for an unknown one, and users, issued tokens
\* and mails stay as they were.
C3_WrongCodeNoToken ==
    [][resp'.op = "token" =>
         /\ (\A i \in DOMAIN users : users[i].username # resp'.username)
               => /\ resp'.status = 404
                  /\ resp'.token = 0
                  /\ UNCHANGED <<users, issued, outbox>>
         /\ \A i \in DOMAIN users :
               (users[i].username = resp'.username
                  /\ users[i].confirmation_code # resp'.code)
               => /\ resp'.status = 400
                  /\ resp'.token = 0
                  /\ UNCHANGED <<users, issued, outbox>>]_vars

C3_Witness ==
    /\ resp.op = "token"
    /\ resp.status = 400
    /\ resp.code \in Tokens
    /\ \E i \in DOMAIN outbox :
          outbox[i].to = users[resp.uid].email /\ outbox[i].body = resp.code

\* C9: signup for an existing (username, email) pair answers 200 for the
\* same user id and adds no user record; only a signup for a new pair adds
\* one, and no two records ever hold the same pair.
C9_SignupIdempotentOnIdentity ==
    [][resp'.op = "signup" =>
         LET existing == {i \in DOMAIN users :
                            /\ users[i].username = resp'.username
                            /\ users[i].email = resp'.email}
         IN
         /\ existing # {} =>
               /\ resp'.status = 200
               /\ resp'.uid \in existing
               /\ Len(users') = Len(users)
               /\ \A i \in DOMAIN users :
                     /\ users'[i].username = users[i].username
                     /\ users'[i].email = users[i].email
         /\ (existing = {} /\ resp'.status = 200) =>
               /\ Len(users') = Len(users) + 1
               /\ resp'.uid = Len(users')
               /\ users'[resp'.uid].username = resp'.username
               /\ users'[resp'.uid].email = resp'.email
         /\ \A i, j \in DOMAIN users' :
               (users'[i].username = users'[j].username
                  /\ users'[i].email = users'[j].email) => i = j]_vars

C9_Witness ==
    /\ resp.op = "signup"
    /\ resp.status = 200
    /\ resp.uid = 2
    /\ Len(users) = 2
    /\ Len(outbox) = 2
    /\ outbox[1].to = users[2].email
    /\ outbox[2].to = users[2].email

\* C10: an access token is issued for a user only if the supplied code is
\* one that signup dispatched to that user's email.
C10_TokenOnlyForDispatchedCode ==
    (resp.op = "token" /\ resp.status = 201)
    => \E i \in MailsTo(users[resp.uid].email) : outbox[i].body = resp.code

(* ================================ reviews =============================== *)
OnePerTitleAuthor(rs) ==
    \A r1, r2 \in rs :
       (r1.title = r2.title /\ r1.author = r2.author) => r1 = r2

\* C4: at most one review per (title, author) in every reachable state,
\* whatever the interleaving of requests; the INSERT of an author who has a
\* review of the title is rejected (Conflict) and changes no review, any
\* other INSERT adds the review; the author's update of the existing review
\* is accepted.
C4_OneReviewPerTitleAuthor ==
    /\ OnePerTitleAuthor(reviews)
    /\ [][/\ OnePerTitleAuthor(reviews')
          /\ \A req \in BagToSet(pending) :
                CopiesIn(req, pending') < CopiesIn(req, pending) =>
                   IF \E r \in reviews :
                         r.title = req.title /\ r.author = req.actor
                   THEN /\ resp'.op = "review_create"
                        /\ resp'.status = 409
                        /\ reviews' = reviews
                   ELSE /\ resp'.status = 201
                        /\ \E r \in reviews' :
                              /\ r.title = req.title
                              /\ r.author = req.actor
                              /\ r.score = req.score
                              /\ reviews' = reviews \cup {r}
          /\ resp'.op = "review_update" =>
                \A r \in reviews :
                   (/\ r.id = resp'.rid
                    /\ r.title = resp'.title
                    /\ r.author = resp'.actor
                    /\ resp'.score \in 1 .. 10)
                   => /\ resp'.status = 200
                      /\ [r EXCEPT !.score = resp'.score] \in reviews'
         ]_vars

\* A second request of the same author for the same title was rejected
\* while a third one is still in flight.
C4_Witness ==
    /\ resp.op = "review_create"
    /\ resp.status = 409
    /\ \E r \in reviews : r.title = resp.title /\ r.author = resp.actor
    /\ \E req \in BagToSet(pending) :
          req.title = resp.title /\ req.actor = resp.actor

\* C7: a title read returns null when the title has no review, otherwise
\* the mean of the scores of the reviews now attached to it, rounded to a
\* nearest integer; every such score, and so the rating, lies in 1..10.
C7_AverageRatingIsCurrentMean ==
    (resp.op = "title_read" /\ resp.status = 200) =>
       LET of == {r \in reviews : r.title = resp.title}
           n == Cardinality(of)
           total == SumScores(of)
       IN
       /\ \A r \in of : r.score \in 1 .. 10
       /\ n = 0 => resp.rating = << >>
       /\ n > 0 =>
             /\ Len(resp.rating) = 1
             /\ resp.rating[1] \in 1 .. 10
             /\ 2 * total - n <= 2 * n * resp.rating[1]
             /\ 2 * n * resp.rating[1] <= 2 * total + n

C7_Witness ==
    /\ resp.op = "title_read"
    /\ resp.status = 200
    /\ resp.rating = << 6 >>
    /\ \E r1, r2 \in reviews :
          /\ r1.title = resp.title /\ r2.title = resp.title
          /\ r1.score = 1 /\ r2.score = 10
    /\ nextReviewId > 2

(* ============================== permissions ============================= *)
\* The actors the rule of section 4.1 allows to change an object of `author`.
MayChange(actor, author) ==
    /\ actor # 0
    /\ \/ users[actor].role = "admin"
       \/ users[actor].is_superuser
       \/ users[actor].is_staff
       \/ users[actor].role = "moderator"
       \/ actor = author

\* C5: an update or delete of an existing review or comment is denied
\* (401/403) exactly when the actor is not an authenticated admin, moderator
\* or author of it; a denied request changes no review and no comment, an
\* allowed delete removes the object and an allowed valid update writes it.
C5_UnsafeNeedsAdminModeratorOrAuthor ==
    [][/\ resp'.op \in {"review_update", "review_delete"} =>
             \A r \in reviews :
                (r.id = resp'.rid /\ r.title = resp'.title) =>
                   IF MayChange(resp'.actor, r.author)
                   THEN /\ resp'.status \notin {401, 403}
                        /\ resp'.op = "review_delete" => r.id \notin {x.id : x \in reviews'}
                        /\ (resp'.op = "review_update" /\ resp'.score \in 1 .. 10)
                              => [r EXCEPT !.score = resp'.score] \in reviews'
                   ELSE /\ resp'.status \in {401, 403}
                        /\ UNCHANGED <<reviews, comments>>
       /\ resp'.op \in {"comment_update", "comment_delete"} =>
             \A c \in comments :
                (c.id = resp'.cid /\ c.review = resp'.rid) =>
                   IF MayChange(resp'.actor, c.author)
                   THEN /\ resp'.status \notin {401, 403}
                        /\ resp'.op = "comment_delete" => c.id \notin {x.id : x \in comments'}
                        /\ resp'.op = "comment_update"
                              => [c EXCEPT !.text = resp'.text] \in comments'
                   ELSE /\ resp'.status \in {401, 403}
                        /\ UNCHANGED <<reviews, comments>>
      ]_vars

C5_Witness ==
    /\ resp.op = "comment_delete"
    /\ resp.status = 403
    /\ resp.actor = Amy
    /\ \E c \in comments : c.id = resp.cid /\ c.author = Bob

ReadOps == {"users_list", "users_me", "category_list", "genre_list",
            "title_read", "review_list", "comment_list"}

\* C8: every read of every collection (users, categories, genres, titles,
\* reviews, comments) is allowed for any actor, the anonymous one included.
C8_EveryReadAllowed ==
    resp.op \in ReadOps => resp.status \notin {401, 403}

\* C8, amended: every read of categories, genres, titles, reviews and
\* comments is allowed for any actor, the anonymous one included; a read of
\* the users collection by an anonymous actor is denied with 401.
C8_ReadsAllowedExceptUsers ==
    /\ resp.op \in ReadOps \ {"users_list", "users_me"}
          => resp.status \notin {401, 403}
    /\ (resp.op \in {"users_list", "users_me"} /\ resp.actor = 0)
          => resp.status = 401

C8_Witness ==
    /\ resp.op = "review_list"
    /\ resp.actor = 0
    /\ resp.status = 200
    /\ reviews # {}

\* C6: a delete of a category or genre by an actor who is not an admin is
\* denied and removes nothing; an admin's delete of an existing slug
\* answers 204 and removes exactly that entity.
C6_CatalogDeleteAdminOnly ==
    [][resp'.op \in {"category_delete", "genre_delete"} =>
         LET a == resp'.actor
             admin == /\ a # 0
                      /\ \/ users[a].role = "admin"
                         \/ users[a].is_superuser
                         \/ users[a].is_staff
         IN
         /\ ~admin => /\ resp'.status \in {401, 403}
                      /\ UNCHANGED <<categories, genres, titles>>
         /\ (admin /\ resp'.op = "category_delete"
                   /\ resp'.slug \in categories)
               => /\ resp'.status = 204
                  /\ categories' = categories \ {resp'.slug}
                  /\ genres' = genres
         /\ (admin /\ resp'.op = "genre_delete" /\ resp'.slug \in genres)
               => /\ resp'.status = 204
                  /\ genres' = genres \ {resp'.slug}
                  /\ categories' = categories
      ]_vars

C6_Witness ==
    /\ resp.op = "category_delete"
    /\ resp.status = 403
    /\ resp.actor = Moderator
    /\ resp.slug \in categories

====
